---- MODULE Spec2Model ----
(***************************************************************************)
(* Colour change-detection experiments (discrete key response and          *)
(* continuous colour-wheel report): trial generation, subject set-up,      *)
(* the experiment loop and the per-trial output file.                      *)
(*                                                                         *)
(* Both scripts are modelled by one state machine; the variable `script`   *)
(* says which of the two is running.  Colour components are fixed-point    *)
(* numbers: the value v of the source is the integer v * Unit.             *)
(***************************************************************************)
EXTENDS Integers, Sequences, FiniteSets, TLC

\* ------------------------------------------------------------------------
\* Bounds of the model
\* ------------------------------------------------------------------------
\* the generator behind `random` is a congruential generator with this modulus
RngModulus == 65536
\* the experiment loop is followed for at most this many trials of a session
MaxTrials == 2
\* at most this many key events wait in the event buffer
MaxKeys == 2
\* a timed wait ends in whole ticks, from 0 up to this many after its limit
MaxRT == 0
\* a caller of class Trial passes condition indices from -1 up to this value,
MaxTrialNum == 6
\* repetition indices from 0 up to this value,
MaxRepNum == 1
\* with the generator in a state from 0 up to this value,
MaxSeed == 3
\* and may set the attribute num_stimuli to a value from 0 up to this one
MaxStimuli == 17

\* ------------------------------------------------------------------------
\* Program constants
\* ------------------------------------------------------------------------
Unit == 3 * 1000

Scripts == {"discrete", "continuous"}

Color(r, g, b) == <<r * Unit, g * Unit, b * Unit>>

Black  == Color(-1, -1, -1)
Blue   == Color(-1, -1, 1)
Green  == Color(-1, 1, -1)
Cyan   == Color(-1, 1, 1)
Red    == Color(1, -1, -1)
Purple == Color(1, -1, 1)
Yellow == Color(1, 1, -1)
White  == Color(1, 1, 1)
\* [1, 0.296, -1]
Orange == <<Unit, (296 * Unit) \div 1000, -Unit>>

\* the palettes as the module sets them when it is loaded
InitColorS1 == <<Black, Blue, Green, Cyan, Red, Purple, Yellow, White>>
InitColorS2 == <<Black, Blue, Green, Cyan, Red, Purple, Yellow, White>>
InitColorS  == <<Black, Blue, Green, Cyan, Red, Purple, Yellow, Orange>>

NUM_TYPE(s) == IF s = "discrete" THEN 6 ELSE 3
INIT_NUM_REPS == 50
TEST_NUM_REPS == 2
TEST_SUBJECT == 999
NUM_SLOTS == 12
\* upper limit of rand_2 in set_colors
RAND2_MAX(s) == IF s = "discrete" THEN 13 ELSE 7
\* times in tenths of a second
ITI_TIME == 5
STIM_TIME == 5
DELAY_TIME(s) == IF s = "discrete" THEN 9 ELSE 10

\* ------------------------------------------------------------------------
\* Sequences as Python lists (0-based indices i are element i + 1)
\* ------------------------------------------------------------------------
Min(a, b) == IF a < b THEN a ELSE b

\* (the slice forgotten)
CutNothing(x, n) == x

\* x[:n]
Cut(x, n) == SubSeq(x, 1, Min(n, Len(x)))

\* (x[i] = x[j] alone)
SwapOverwrite(x, i, j) == [x EXCEPT ![i + 1] = x[j + 1]]

\* x[i], x[j] = x[j], x[i]
Swap(x, i, j) == [x EXCEPT ![i + 1] = x[j + 1], ![j + 1] = x[i + 1]]

Range(x) == {x[i] : i \in 1..Len(x)}

Distinct(x) == \A i, j \in 1..Len(x) : i # j => x[i] # x[j]

\* ------------------------------------------------------------------------
\* The module `random`: a deterministic generator, seeded by random.seed
\* ------------------------------------------------------------------------
\* (the generator left as the system seeded it)
SeedRandomKept(n, old) == old

\* random.seed(n): the generator state is a function of n alone
SeedRandom(n, old) == n % RngModulus

\* one step of the generator
NextRng(g) == (25173 * g + 13849) % RngModulus

\* int(random() * n): the value drawn from state g (the state becomes NextRng(g))
RandBelow(g, n) == (NextRng(g) * n) \div RngModulus

\* (the pass copies x[j] to x[i] and does not put x[i] at j)
ShuffleStepOverwrite(x, i, g) ==
    [list |-> [x EXCEPT ![i + 1] = x[RandBelow(g, i + 1) + 1]], rng |-> NextRng(g)]

\* one pass of the loop of random.shuffle(x), which is
\* for i in reversed(xrange(1, len(x))): j = int(random() * (i+1)); swap i and j
ShuffleStep(x, i, g) ==
    [list |-> Swap(x, i, RandBelow(g, i + 1)), rng |-> NextRng(g)]

RECURSIVE ShuffleFrom(_, _, _)
ShuffleFrom(x, i, g) ==
    IF i < 1 THEN [list |-> x, rng |-> g]
    ELSE LET s == ShuffleStep(x, i, g) IN ShuffleFrom(s.list, i - 1, s.rng)

Shuffle(x, g) == ShuffleFrom(x, Len(x) - 1, g)

\* random.randint(a, b): a + int(random() * (b - a + 1)); an empty range raises ValueError
RandInt(a, b, g) ==
    IF b - a + 1 > 0
    THEN [val |-> a + RandBelow(g, b - a + 1), rng |-> NextRng(g), err |-> FALSE]
    ELSE [val |-> a, rng |-> g, err |-> TRUE]

\* ------------------------------------------------------------------------
\* class Trial
\* ------------------------------------------------------------------------
\* Trial.__init__: the load of a trial type; no branch matches another
\* trial_num and num_stimuli keeps its initial 0
NumStimuli(s, trial_num) ==
    IF s = "discrete"
    THEN CASE trial_num = 0 -> 1
           [] trial_num = 1 -> 2
           [] trial_num = 2 -> 3
           [] trial_num = 3 -> 4
           [] trial_num = 4 -> 8
           [] trial_num = 5 -> 12
           [] OTHER -> 0
    ELSE CASE trial_num = 0 -> 2
           [] trial_num = 1 -> 4
           [] trial_num = 2 -> 6
           [] OTHER -> 0

NewTrial(s, trial_num, rep_num) ==
    [rep_num        |-> rep_num,
     trial_num      |-> trial_num,
     num_stimuli    |-> NumStimuli(s, trial_num),
     stim_positions |-> <<>>,
     change         |-> FALSE,
     stim_colors    |-> <<>>,
     probe_colors   |-> <<>>]

\* the 12 ring positions; position k is (cos(30k deg) * 4, sin(30k deg) * 4),
\* a different point for each k in 0..11, and is written as its slot k
RingPositions == [k \in 1..NUM_SLOTS |-> k - 1]

\* Trial.set_positions
SetPositions(t, g) ==
    LET sh == Shuffle(t.stim_positions \o RingPositions, g)
    IN  [trial |-> [t EXCEPT !.stim_positions = Cut(sh.list, t.num_stimuli)],
         rng   |-> sh.rng]

\* ((self.rep_num % 2) == 1)
IsChangeRepOdd(rep_num) == rep_num % 2 = 1

\* (self.rep_num % 2) == 0
IsChangeRep(rep_num) == rep_num % 2 = 0

\* the list both colour lists are filled from, after the in-place shuffles of
\* the module's palettes
ShufflePalettes(s, g, S1, S2, S) ==
    IF s = "discrete"
    THEN LET a == Shuffle(S1, g)
             b == Shuffle(S2, a.rng)
         IN  [S1 |-> a.list, S2 |-> b.list, S |-> S,
              pool |-> a.list \o b.list, rng |-> b.rng]
    ELSE LET a == Shuffle(S, g)
         IN  [S1 |-> S1, S2 |-> S2, S |-> a.list, pool |-> a.list, rng |-> a.rng]

\* self.probe_colors[rand_1] = self.probe_colors[rand_2]; an index outside the
\* list raises IndexError
ReplaceProbe(probe, rand_1, rand_2) ==
    [probe EXCEPT ![rand_1 + 1] = probe[rand_2 + 1]]

\* Trial.set_colors; err is set when the method raises
SetColors(s, t, g, S1, S2, S) ==
    LET p     == ShufflePalettes(s, g, S1, S2, S)
        stim  == t.stim_colors \o p.pool
        probe == t.probe_colors \o p.pool
        r1    == RandInt(0, t.num_stimuli - 1, p.rng)
        r2    == RandInt(t.num_stimuli, RAND2_MAX(s), r1.rng)
        bad   == r1.err \/ r2.err \/ r1.val >= Len(probe) \/ r2.val >= Len(probe)
    IN  IF ~IsChangeRep(t.rep_num)
        THEN [trial |-> [t EXCEPT !.stim_colors  = Cut(stim, t.num_stimuli),
                                  !.probe_colors = Cut(probe, t.num_stimuli)],
              rng |-> p.rng, S1 |-> p.S1, S2 |-> p.S2, S |-> p.S, err |-> FALSE,
              rand_1 |-> -1, rand_2 |-> -1]
        ELSE IF bad
        THEN [trial |-> [t EXCEPT !.change = TRUE, !.stim_colors = stim,
                                  !.probe_colors = probe],
              rng |-> r2.rng, S1 |-> p.S1, S2 |-> p.S2, S |-> p.S, err |-> TRUE,
              rand_1 |-> r1.val, rand_2 |-> r2.val]
        ELSE [trial |-> [t EXCEPT !.change = TRUE,
                                  !.stim_colors  = Cut(stim, t.num_stimuli),
                                  !.probe_colors =
                                      Cut(ReplaceProbe(probe, r1.val, r2.val),
                                          t.num_stimuli)],
              rng |-> r2.rng, S1 |-> p.S1, S2 |-> p.S2, S |-> p.S, err |-> FALSE,
              rand_1 |-> r1.val, rand_2 |-> r2.val]

\* the body of the loops of set_trials: Trial(trial, rep), set_positions, set_colors
MakeTrial(s, trial_num, rep_num, g, S1, S2, S) ==
    LET a == SetPositions(NewTrial(s, trial_num, rep_num), g)
    IN  SetColors(s, a.trial, a.rng, S1, S2, S)

\* ------------------------------------------------------------------------
\* Strings entered in the subject dialog: sequences of characters
\* ------------------------------------------------------------------------
Digits == {"0", "1", "2", "3", "4", "5", "6", "7", "8", "9"}

DigitVal(c) ==
    CASE c = "0" -> 0 [] c = "1" -> 1 [] c = "2" -> 2 [] c = "3" -> 3
      [] c = "4" -> 4 [] c = "5" -> 5 [] c = "6" -> 6 [] c = "7" -> 7
      [] c = "8" -> 8 [] c = "9" -> 9

\* str.isdigit(): at least one character, and all of them digits
IsDigit(str) == Len(str) > 0 /\ \A i \in 1..Len(str) : str[i] \in Digits

\* int(str) of a string of digits
RECURSIVE ToInt(_)
ToInt(str) ==
    IF Len(str) = 0 THEN 0
    ELSE 10 * ToInt(SubSeq(str, 1, Len(str) - 1)) + DigitVal(str[Len(str)])

\* file_name = subj_info['Subject Number'] + '.csv', joined to SAVE_PATH
FilePath(str) == Append(str, ".csv")

\* what the experimenter may type into the dialog
Entries == {<<>>, <<"9", "x">>, <<"9">>, <<"1", "0">>, <<"9", "9", "9">>}

\* the contents a result file left by an earlier session may have
OldFile == << <<"old header">>, <<"old row">> >>

\* the result files that may exist when the script starts
OldSubjects == {<<"9">>, <<"1", "0">>, <<"9", "9", "9">>}

\* This is a list of the column headers for the output file
HEADER_LIST(s) ==
    IF s = "discrete"
    THEN <<"Subject_Number", "Trial_Number", "Number_of_Stim",
           "Stim_color_1", "Stim_color_2", "Stim_color_3", "Stim_color_4",
           "Stim_color_5", "Stim_color_6", "Stim_color_7", "Stim_color_8",
           "Stim_color_9", "Stim_color_10", "Stim_color_11", "Stim_color_12",
           "Probe_color_1", "Probe_color_2", "Probe_color_3", "Probe_color_4",
           "Probe_color_5", "Probe_color_6", "Probe_color_7", "Probe_color_8",
           "Probe_color_9", "Probe_color_10", "Probe_color_11", "Probe_color_12",
           "Change_Present", "Subject_Response", "Response_Time">>
    ELSE <<"Subject_Number", "Trial_Number", "Number_of_Stim", "Stim_color_1",
           "Stim_color_2", "Stim_color_3", "Stim_color_4", "Stim_color_5",
           "Stim_color_6", "Probe_color", "Subject_Response_color",
           "Error (l2 norm)", "Response_Time">>

\* ------------------------------------------------------------------------
\* State
\* ------------------------------------------------------------------------
VARIABLES
    script,         \* which of the two scripts runs
    status,         \* "running", "quit" (core.quit()), "crashed"
    pc,             \* the statement the script is at
    fs,             \* the files under SAVE_PATH: path -> list of rows on disk
    csv_buffer,     \* rows written to csv_file and not yet flushed
    subj_info,      \* the last entry of the subject dialog
    dialog,         \* what the last round of the dialog ended with
    NUM_REPS,
    subj_num, subj_file,
    rng,            \* the state of the generator of `random`
    TRIAL_colorS1, TRIAL_colorS2, TRIAL_colorS,
    rep, trial_type,        \* the loop variables of set_trials
    shuffle_i,              \* the loop variable i of random.shuffle(test_set)
    rand_1, rand_2,         \* the indices drawn by the last set_colors
    set_trial,              \* the Trial under construction: a list of at most one
    test_set,
    current_trial,
    keys,           \* the key events waiting in the event buffer
    mousePos, buttons,      \* the last sample of the mouse
    stimuli,        \* the fill colours of the items the current screen draws
    probe, probe_Color, probe_fill,
    waited,         \* the reading of event_clock that ended the last timed wait
    response, resp_time,
    sub_resp_Color, judgement_Error,
    previous_run    \* what earlier runs of the script generated: a list

setup_vars == <<subj_info, dialog, NUM_REPS, subj_num, subj_file>>
palette_vars == <<TRIAL_colorS1, TRIAL_colorS2, TRIAL_colorS>>
gen_vars == <<rep, trial_type, shuffle_i, rand_1, rand_2, set_trial, test_set>>
file_vars == <<fs, csv_buffer>>
input_vars == <<keys, mousePos, buttons>>
trial_vars == <<stimuli, probe, probe_Color, probe_fill, waited, response, resp_time,
                sub_resp_Color, judgement_Error>>

vars == <<script, status, pc, file_vars, setup_vars, rng, palette_vars, gen_vars,
          current_trial, input_vars, trial_vars, previous_run>>

None == "None"

\* the state of a freshly started interpreter that has loaded the script: the
\* generator of `random` is seeded from the system, the palettes are as written
Launch(s, files, entropy, prev) ==
    /\ script = s
    /\ status = "running"
    /\ pc = "setup_subject"
    /\ fs = files
    /\ csv_buffer = <<>>
    /\ subj_info = <<>>
    /\ dialog = None
    /\ NUM_REPS = INIT_NUM_REPS
    /\ subj_num = <<>>
    /\ subj_file = <<>>
    /\ rng = entropy
    /\ TRIAL_colorS1 = InitColorS1
    /\ TRIAL_colorS2 = InitColorS2
    /\ TRIAL_colorS = InitColorS
    /\ rep = 0
    /\ trial_type = 0
    /\ shuffle_i = -1
    /\ rand_1 = -1
    /\ rand_2 = -1
    /\ set_trial = <<>>
    /\ test_set = <<>>
    /\ current_trial = 0
    /\ keys = <<>>
    /\ mousePos = <<0, 0>>
    /\ buttons = FALSE
    /\ probe = -1
    /\ probe_Color = <<>>
    /\ stimuli = <<>>
    /\ probe_fill = <<>>
    /\ waited = 0
    /\ response = FALSE
    /\ resp_time = 0
    /\ sub_resp_Color = <<>>
    /\ judgement_Error = 0
    /\ previous_run = prev

InitFiles == {[p \in {FilePath(e) : e \in E} |-> OldFile] : E \in {{}, OldSubjects}}

Entropy == {0, 1}

Init ==
    \E s \in Scripts, files \in InitFiles, e \in Entropy :
        Launch(s, files, e, <<>>)

\* ------------------------------------------------------------------------
\* setup_subject
\* ------------------------------------------------------------------------
\* (the check for an existing file left out)
SubjectCheckNoFile(entry, files, reps) ==
    IF IsDigit(entry)
    THEN [end |-> "return",
          NUM_REPS |-> IF ToInt(entry) = TEST_SUBJECT THEN TEST_NUM_REPS ELSE reps]
    ELSE [end |-> "num_error", NUM_REPS |-> reps]

\* one round of the dialog loop after OK was pressed: what the round ends
\* with, and the NUM_REPS it leaves
SubjectCheck(entry, files, reps) ==
    IF IsDigit(entry)
    THEN IF ToInt(entry) = TEST_SUBJECT
         THEN [end |-> "return", NUM_REPS |-> TEST_NUM_REPS]
         ELSE IF FilePath(entry) \notin DOMAIN files
         THEN [end |-> "return", NUM_REPS |-> reps]
         ELSE [end |-> "subj_error", NUM_REPS |-> reps]
    ELSE [end |-> "num_error", NUM_REPS |-> reps]

\* the experimenter cancels the dialog: core.quit()
DialogCancel ==
    /\ status = "running" /\ pc = "setup_subject"
    /\ subj_info' = <<>>
    /\ dialog' = "cancel"
    /\ status' = "quit"
    /\ UNCHANGED <<script, pc, file_vars, NUM_REPS, subj_num, subj_file, rng,
                   palette_vars, gen_vars, current_trial, input_vars, trial_vars,
                   previous_run>>

\* the experimenter types an entry and presses OK
DialogOK ==
    /\ status = "running" /\ pc = "setup_subject"
    /\ \E entry \in Entries :
         LET c == SubjectCheck(entry, fs, NUM_REPS)
         IN  /\ subj_info' = entry
             /\ dialog' = c.end
             /\ NUM_REPS' = c.NUM_REPS
             /\ IF c.end = "return"
                THEN /\ subj_num' = entry
                     /\ subj_file' = FilePath(entry)
                     /\ pc' = "seed"
                ELSE UNCHANGED <<subj_num, subj_file, pc>>
    /\ UNCHANGED <<script, status, file_vars, rng, palette_vars, gen_vars,
                   current_trial, input_vars, trial_vars, previous_run>>

\* ------------------------------------------------------------------------
\* Experiment setup
\* ------------------------------------------------------------------------
\* os.makedirs(SAVE_PATH); random.seed(int(subj_num))
SeedGenerator ==
    /\ status = "running" /\ pc = "seed"
    /\ rng' = SeedRandom(ToInt(subj_num), rng)
    /\ pc' = "header"
    /\ UNCHANGED <<script, status, file_vars, setup_vars, palette_vars, gen_vars,
                   current_trial, input_vars, trial_vars, previous_run>>

\* with open(path, 'w') as f: one row written; the file is created or
\* truncated, and closed at the end of the block
OpenWriteClose(files, path, row) ==
    [q \in DOMAIN files \cup {path} |-> IF q = path THEN <<row>> ELSE files[q]]

WriteHeader ==
    /\ status = "running" /\ pc = "header"
    /\ fs' = OpenWriteClose(fs, subj_file, HEADER_LIST(script))
    /\ pc' = "set_trials"
    /\ UNCHANGED <<script, status, csv_buffer, setup_vars, rng, palette_vars,
                   gen_vars, current_trial, input_vars, trial_vars, previous_run>>

\* ------------------------------------------------------------------------
\* set_trials
\* ------------------------------------------------------------------------
\* one pass of the inner loop body: build a Trial and append it
BuildTrial ==
    /\ status = "running" /\ pc = "set_trials"
    /\ rep < NUM_REPS
    /\ LET m == MakeTrial(script, trial_type, rep, rng,
                          TRIAL_colorS1, TRIAL_colorS2, TRIAL_colorS)
       IN  /\ rng' = m.rng
           /\ TRIAL_colorS1' = m.S1
           /\ TRIAL_colorS2' = m.S2
           /\ TRIAL_colorS' = m.S
           /\ rand_1' = m.rand_1
           /\ rand_2' = m.rand_2
           /\ IF m.err
              THEN /\ status' = "error"
                   /\ UNCHANGED <<test_set, rep, trial_type, shuffle_i>>
              ELSE /\ status' = status
                   /\ test_set' = Append(test_set, m.trial)
                   /\ shuffle_i' = Len(test_set)
                   /\ IF trial_type + 1 < NUM_TYPE(script)
                      THEN /\ trial_type' = trial_type + 1
                           /\ rep' = rep
                      ELSE /\ trial_type' = 0
                           /\ rep' = rep + 1
    /\ UNCHANGED <<script, pc, file_vars, setup_vars, set_trial, current_trial,
                   input_vars, trial_vars, previous_run>>

\* an exception leaves set_trials (an interrupt, or memory running out, while
\* the trials are built): nothing catches it and the interpreter exits
GenerationRaises ==
    /\ status = "running" /\ pc = "set_trials"
    /\ status' = "raised"
    /\ UNCHANGED <<script, pc, file_vars, setup_vars, rng, palette_vars, gen_vars,
                   current_trial, input_vars, trial_vars, previous_run>>

\* (the list is returned as soon as it holds a Trial)
AllBuiltEarly == pc = "set_trials" /\ Len(test_set) > 0

\* the loops of set_trials are done
AllBuilt == pc = "set_trials" /\ rep >= NUM_REPS

\* random.shuffle(test_set): one pass of its loop
ShuffleTrials ==
    /\ status = "running" /\ AllBuilt
    /\ shuffle_i >= 1
    /\ LET sh == ShuffleStep(test_set, shuffle_i, rng)
       IN  /\ test_set' = sh.list
           /\ rng' = sh.rng
    /\ shuffle_i' = shuffle_i - 1
    /\ UNCHANGED <<script, status, pc, file_vars, setup_vars, palette_vars, rep,
                   trial_type, rand_1, rand_2, set_trial, current_trial,
                   input_vars, trial_vars, previous_run>>

\* the loop of random.shuffle is done; return test_set
ReturnTrials ==
    /\ status = "running" /\ AllBuilt
    /\ shuffle_i < 1
    /\ pc' = "instructions"
    /\ UNCHANGED <<script, status, file_vars, setup_vars, rng, palette_vars,
                   gen_vars, current_trial, input_vars, trial_vars, previous_run>>

\* ------------------------------------------------------------------------
\* The colour wheel and the mouse (continuous script)
\* ------------------------------------------------------------------------
n_circ == 360
\* radii in tenths of a degree of visual angle
loop_radius == 80
\* mask1: radius = loop_radius - 0.5; mask2: radius = loop_radius + 0.5
Mask1Radius == loop_radius - 5
Mask2Radius == loop_radius + 5

Abs(x) == IF x < 0 THEN -x ELSE x

\* rgb[k]: misc.hsv2rgb of hue k degrees with saturation and value 1, in the
\* range -1..1
rgb(k) ==
    LET X  == Unit - 100 * Abs((k % 120) - 60)
        C  == Unit
        Z  == -Unit
        h  == (k % 360) \div 60
    IN  CASE h = 0 -> <<C, X, Z>>
          [] h = 1 -> <<X, C, Z>>
          [] h = 2 -> <<Z, C, X>>
          [] h = 3 -> <<Z, X, C>>
          [] h = 4 -> <<X, Z, C>>
          [] h = 5 -> <<C, Z, X>>

\* np.cos of a whole number of degrees, in thousandths: the first quadrant
CosTable ==
  <<1000, 1000, 999, 999, 998, 996, 995, 993, 990, 988, 985, 982, 978,
     974, 970, 966, 961, 956, 951, 946, 940, 934, 927, 921, 914, 906,
     899, 891, 883, 875, 866, 857, 848, 839, 829, 819, 809, 799, 788,
     777, 766, 755, 743, 731, 719, 707, 695, 682, 669, 656, 643, 629,
     616, 602, 588, 574, 559, 545, 530, 515, 500, 485, 469, 454, 438,
     423, 407, 391, 375, 358, 342, 326, 309, 292, 276, 259, 242, 225,
     208, 191, 174, 156, 139, 122, 105, 87, 70, 52, 35, 17, 0>>

Cos(deg) ==
    LET d == deg % 360
    IN  IF d <= 90 THEN CosTable[d + 1]
        ELSE IF d <= 180 THEN -CosTable[180 - d + 1]
        ELSE IF d <= 270 THEN -CosTable[d - 180 + 1]
        ELSE CosTable[360 - d + 1]

Sin(deg) == Cos(deg + 270)

\* xys[k]: (loop_radius * cos(k deg), loop_radius * sin(k deg)), in thousandths
\* of a degree of visual angle
xys(k) == <<(loop_radius * Cos(k)) \div 10, (loop_radius * Sin(k)) \div 10>>

\* the pointer positions the mouse is sampled at, in thousandths of a degree
\* of visual angle: the centre, a point inside the wheel, a point on it and a
\* point outside it
MousePoints == {<<0, 0>>, <<3000, 5196>>, <<0, 8000>>, <<0, 10000>>}

\* how far past its limit the clock is when a timed wait reads it last
ClockReadings == 0..MaxRT

\* the response time, key_resp.clock.getTime() or toc - tic: the scripts copy
\* the reading into the row and do nothing else with it, so that one value
\* stands for every reading
RespTimes == {0}

\* (the wait left out: the clock is read once and the script goes on)
WaitedAny(limit) == ClockReadings

\* while event_clock.getTime() < limit: pass -- the readings the loop can end
\* with: the first one that is not below the limit
Waited(limit) == {limit + late : late \in ClockReadings}

\* the square of the distance of two points
Dist2(a, b) == (a[1] - b[1]) * (a[1] - b[1]) + (a[2] - b[2]) * (a[2] - b[2])

\* euclidean_distances(stim.xys, [mousePos]), as squares: entry k + 1 is for
\* wheel point k
WheelDistances(p) == [k \in 1..n_circ |-> Dist2(xys(k - 1), p)]

\* (of equal values the last one wins)
RECURSIVE ArgMinLast(_, _, _)
ArgMinLast(d, lo, hi) ==
    IF lo = hi THEN lo
    ELSE LET mid == (lo + hi) \div 2
             a   == ArgMinLast(d, lo, mid)
             b   == ArgMinLast(d, mid + 1, hi)
         IN  IF d[b] <= d[a] THEN b ELSE a

\* np.argmin over the entries lo..hi of d: the position of the least value,
\* and of equal values the first
RECURSIVE ArgMin(_, _, _)
ArgMin(d, lo, hi) ==
    IF lo = hi THEN lo
    ELSE LET mid == (lo + hi) \div 2
             a   == ArgMin(d, lo, mid)
             b   == ArgMin(d, mid + 1, hi)
         IN  IF d[b] < d[a] THEN b ELSE a

\* loc = np.argmin(euclidean_distances(stim.xys, [mousePos])), for each of the
\* pointer positions
loc == [p \in MousePoints |-> ArgMin(WheelDistances(p), 1, n_circ) - 1]

\* (argmin taking the last of equal values)
locLast == [p \in MousePoints |-> ArgMinLast(WheelDistances(p), 1, n_circ) - 1]

NearestWheelPointLast(p) == locLast[p]

\* the index of the wheel point that is taken for the pointer position p
NearestWheelPoint(p) == loc[p]

\* mask.contains(mouse) for a Circle of the given radius (in tenths of a
\* degree) about the centre
Contains(radius, p) == Dist2(p, <<0, 0>>) < (radius * 100) * (radius * 100)

\* not mask1.contains(mouse) and mask2.contains(mouse)
InAnnulus(p) == ~Contains(Mask1Radius, p) /\ Contains(Mask2Radius, p)

\* floor of the square root
RECURSIVE Bisect(_, _, _)
Bisect(n, lo, hi) ==
    IF lo >= hi THEN lo
    ELSE LET mid == (lo + hi + 1) \div 2
         IN  IF mid * mid <= n THEN Bisect(n, mid, hi) ELSE Bisect(n, lo, mid - 1)

ISqrt(n) == Bisect(n, 0, 4 * Unit)

\* (the sum of the differences of the components)
ManhattanDistance(a, b) ==
    Abs(a[1] - b[1]) + Abs(a[2] - b[2]) + Abs(a[3] - b[3])

\* euclidean_distances([a], [b]) of two RGB triples, rounded down
EuclideanDistance(a, b) ==
    ISqrt((a[1] - b[1]) * (a[1] - b[1]) + (a[2] - b[2]) * (a[2] - b[2])
          + (a[3] - b[3]) * (a[3] - b[3]))

\* ------------------------------------------------------------------------
\* The output rows
\* ------------------------------------------------------------------------
\* the dictionary color_NAMES of the discrete script
color_NAMES ==
    [c \in {Black, Blue, Green, Cyan, Red, Purple, Yellow, White} |->
        CASE c = Black -> "Black" [] c = Blue -> "Blue" [] c = Green -> "Green"
          [] c = Cyan -> "Cyan" [] c = Red -> "Red" [] c = Purple -> "Purple"
          [] c = Yellow -> "Yellow" [] c = White -> "White"]

\* try: color_NAMES[str(colors[target])] except: 'NaN'.  The continuous script
\* defines no color_NAMES, so there the lookup always raises
NameOrNaN(s, colors, target) ==
    IF s # "discrete" THEN "NaN"
    ELSE IF target >= Len(colors) THEN "NaN"
    ELSE IF colors[target + 1] \notin DOMAIN color_NAMES THEN "NaN"
    ELSE color_NAMES[colors[target + 1]]

\* (a failed lookup leaves its column out)
NameColumnsFound(s, colors, n) ==
    [k \in 1..Min(n, Len(colors)) |-> NameOrNaN(s, colors, k - 1)]

\* for target in xrange(n): output.append(the name or 'NaN')
NameColumns(s, colors, n) == [k \in 1..n |-> NameOrNaN(s, colors, k - 1)]

\* the list `output` of a trial
OutputRow(s, subj, number, t, resp, rt, p_color, r_color, error) ==
    IF s = "discrete"
    THEN <<subj, number, t.num_stimuli>>
            \o NameColumns(s, t.stim_colors, 12)
            \o NameColumns(s, t.probe_colors, 12)
            \o <<t.change, resp, rt>>
    ELSE <<subj, number, t.num_stimuli>>
            \o NameColumns(s, t.stim_colors, 6)
            \o <<p_color, r_color, error, rt>>

\* writer.writerow(output)
WriteRowTo(buffer, row) == Append(buffer, row)

\* (no flush: the rows stay in the buffer)
FlushNothing(files, path, buffer) == [fs |-> files, buffer |-> buffer]

\* csv_file.flush(): the buffered rows reach the file
Flush(files, path, buffer) ==
    [fs |-> [files EXCEPT ![path] = @ \o buffer], buffer |-> <<>>]

\* ------------------------------------------------------------------------
\* Experiment run-time
\* ------------------------------------------------------------------------
KeyNames == {"z", "m", "escape", "space"}
BREAK_EVERY == 25

TrialPcs == {"iti", "sample", "delay", "response", "write"}
LoopPcs == {"loop"} \cup TrialPcs

\* event.getKeys([k]) leaves the other keys in the buffer
Without(buf, k) == SelectSeq(buf, LAMBDA x : x # k)

\* the Trial the loop is presenting
trial == test_set[current_trial]

\* the wheel indices np.random.choice(np.arange(0, n_circ), 1) is followed for
WheelDraws == {60, 200}

\* the fill colours the set-up of the sample screen can give an item: the
\* colour the trial holds for it; in the continuous script an item whose
\* colour is [-1, -1, -1] gets rgb[ix] for a random wheel index ix instead
FillChoices(s, color) ==
    IF s = "continuous" /\ color = Black
    THEN {rgb(ix) : ix \in WheelDraws}
    ELSE {color}

\* the fill colours of the first k items after the set-up of the sample screen
RECURSIVE FillsFrom(_, _, _)
FillsFrom(s, colors, k) ==
    IF k = 0 THEN {<<>>}
    ELSE {Append(f, c) : f \in FillsFrom(s, colors, k - 1),
                         c \in FillChoices(s, colors[k])}

\* for target in range(trial.num_stimuli): stimuli[target].setFillColor(...)
SampleFills(s, t) == FillsFrom(s, t.stim_colors, t.num_stimuli)

\* the fill colours after the set-up of the screens that follow the sample:
\* the discrete script sets up the probe array with trial.probe_colors, the
\* continuous script empties every item with setFillColor(None)
DelayFills(s, t) ==
    IF s = "discrete"
    THEN [k \in 1..t.num_stimuli |-> t.probe_colors[k]]
    ELSE [k \in 1..t.num_stimuli |-> <<>>]

\* display_message(INS_MSG): event.waitKeys() empties the buffer and returns
\* at the next key; then csv_file = open(subj_file, 'a'); current_trial = 0
Instructions ==
    /\ status = "running" /\ pc = "instructions"
    /\ keys' = <<>>
    /\ csv_buffer' = <<>>
    /\ current_trial' = 0
    /\ pc' = "loop"
    /\ UNCHANGED <<script, status, fs, setup_vars, rng, palette_vars, gen_vars,
                   mousePos, buttons, trial_vars, previous_run>>

\* a key goes down while the window is open
KeyPress ==
    /\ status = "running" /\ pc \in LoopPcs
    /\ Len(keys) < MaxKeys
    /\ \E k \in KeyNames : keys' = Append(keys, k)
    /\ UNCHANGED <<script, status, pc, file_vars, setup_vars, rng, palette_vars,
                   gen_vars, current_trial, mousePos, buttons, trial_vars,
                   previous_run>>

\* the head of the for loop up to the flip of the ITI screen.  The continuous
\* script first reads the event buffer and shuts down if its first key is
\* escape.  Every 25th trial starts with the break message, whose
\* event.waitKeys() empties the buffer.
BeginTrial ==
    /\ status = "running" /\ pc = "loop"
    /\ current_trial < Len(test_set)
    /\ current_trial < MaxTrials
    /\ IF script = "continuous" /\ Len(keys) > 0 /\ keys[1] = "escape"
       THEN /\ status' = "quit"
            /\ keys' = <<>>
            /\ UNCHANGED <<pc, current_trial>>
       ELSE /\ status' = status
            /\ current_trial' = current_trial + 1
            /\ keys' = IF script = "continuous"
                          \/ (current_trial + 1) % BREAK_EVERY = 0
                       THEN <<>> ELSE keys
            /\ pc' = "iti"
    /\ UNCHANGED <<script, file_vars, setup_vars, rng, palette_vars, gen_vars,
                   mousePos, buttons, trial_vars, previous_run>>

\* the sample array is set up, the ITI is waited out and the array is shown
ShowSample ==
    /\ status = "running" /\ pc = "iti"
    /\ waited' \in Waited(ITI_TIME)
    /\ stimuli' \in SampleFills(script, trial)
    /\ pc' = "sample"
    /\ UNCHANGED <<script, status, file_vars, setup_vars, rng, palette_vars,
                   gen_vars, current_trial, input_vars, probe, probe_Color,
                   probe_fill, response, resp_time, sub_resp_Color,
                   judgement_Error, previous_run>>

\* the sample is waited out and the blank screen is shown; the probe screen is
\* set up and event.clearEvents() is called before the delay is waited out.
\* The continuous script draws the probed item with random.sample here.
ShowDelay ==
    /\ status = "running" /\ pc = "sample"
    /\ waited' \in Waited(STIM_TIME)
    /\ keys' = <<>>
    /\ IF script = "continuous"
       THEN /\ probe' = RandBelow(rng, trial.num_stimuli)
            /\ rng' = NextRng(rng)
            /\ probe_Color' = trial.stim_colors[probe' + 1]
       ELSE UNCHANGED <<probe, rng, probe_Color>>
    /\ stimuli' = DelayFills(script, trial)
    /\ pc' = "delay"
    /\ UNCHANGED <<script, status, file_vars, setup_vars, palette_vars, gen_vars,
                   current_trial, mousePos, buttons, probe_fill, response,
                   resp_time, sub_resp_Color, judgement_Error, previous_run>>

\* the delay is waited out, the response clock is reset and the probe is shown
ShowProbe ==
    /\ status = "running" /\ pc = "delay"
    /\ waited' \in Waited(DELAY_TIME(script))
    /\ pc' = "response"
    /\ UNCHANGED stimuli
    /\ UNCHANGED <<script, status, file_vars, setup_vars, rng, palette_vars,
                   gen_vars, current_trial, keys, mousePos, buttons, probe,
                   probe_Color, probe_fill, response, resp_time, sub_resp_Color,
                   judgement_Error, previous_run>>

\* (escape is read and the loop goes on)
PollKeysEscapeIgnored ==
    /\ status = "running" /\ pc = "response" /\ script = "discrete"
    /\ \E k \in {"z", "m", "escape"} : k \in Range(keys)
    /\ UNCHANGED stimuli
    /\ IF "z" \in Range(keys)
       THEN /\ keys' = Without(keys, "z")
            /\ response' = TRUE
            /\ resp_time' \in RespTimes
            /\ pc' = "write"
       ELSE IF "m" \in Range(keys)
       THEN /\ keys' = Without(keys, "m")
            /\ response' = FALSE
            /\ resp_time' \in RespTimes
            /\ pc' = "write"
       ELSE /\ keys' = Without(keys, "escape")
            /\ UNCHANGED <<response, resp_time, pc>>
    /\ UNCHANGED <<script, status, file_vars, setup_vars, rng, palette_vars,
                   gen_vars, current_trial, mousePos, buttons, probe, probe_Color,
                   probe_fill, waited, sub_resp_Color, judgement_Error,
                   previous_run>>

\* (m is looked for before z)
PollKeysMFirst ==
    /\ status = "running" /\ pc = "response" /\ script = "discrete"
    /\ \E k \in {"z", "m", "escape"} : k \in Range(keys)
    /\ UNCHANGED stimuli
    /\ IF "m" \in Range(keys)
       THEN /\ keys' = Without(keys, "m")
            /\ response' = FALSE
            /\ resp_time' \in RespTimes
            /\ pc' = "write"
            /\ status' = status
       ELSE IF "z" \in Range(keys)
       THEN /\ keys' = Without(keys, "z")
            /\ response' = TRUE
            /\ resp_time' \in RespTimes
            /\ pc' = "write"
            /\ status' = status
       ELSE /\ keys' = Without(keys, "escape")
            /\ status' = "quit"
            /\ UNCHANGED <<response, resp_time, pc>>
    /\ UNCHANGED <<script, file_vars, setup_vars, rng, palette_vars, gen_vars,
                   current_trial, mousePos, buttons, probe, probe_Color,
                   probe_fill, waited, sub_resp_Color, judgement_Error,
                   previous_run>>

\* one pass of the response loop of the discrete script that finds a key
PollKeys ==
    /\ status = "running" /\ pc = "response" /\ script = "discrete"
    /\ \E k \in {"z", "m", "escape"} : k \in Range(keys)
    /\ UNCHANGED stimuli
    /\ IF "z" \in Range(keys)
       THEN /\ keys' = Without(keys, "z")
            /\ response' = TRUE
            /\ resp_time' \in RespTimes
            /\ pc' = "write"
            /\ status' = status
       ELSE IF "m" \in Range(keys)
       THEN /\ keys' = Without(keys, "m")
            /\ response' = FALSE
            /\ resp_time' \in RespTimes
            /\ pc' = "write"
            /\ status' = status
       ELSE /\ keys' = Without(keys, "escape")
            /\ status' = "quit"
            /\ UNCHANGED <<response, resp_time, pc>>
    /\ UNCHANGED <<script, file_vars, setup_vars, rng, palette_vars, gen_vars,
                   current_trial, mousePos, buttons, probe, probe_Color,
                   probe_fill, waited, sub_resp_Color, judgement_Error,
                   previous_run>>

\* what a pass of the response loop of the continuous script does with the
\* mouse sample (p, b): whether the loop ends, and the colour it takes
MouseResponse(p, b) ==
    [fill     |-> IF InAnnulus(p) THEN rgb(NearestWheelPoint(p)) ELSE <<>>,
     accepted |-> b,
     color    |-> rgb(NearestWheelPoint(p))]

\* one pass of the response loop of the continuous script
PollMouse ==
    /\ status = "running" /\ pc = "response" /\ script = "continuous"
    /\ \E p \in MousePoints, b \in BOOLEAN :
         LET m == MouseResponse(p, b)
         IN  /\ mousePos' = p
             /\ buttons' = b
             /\ probe_fill' = m.fill
             /\ stimuli' = [stimuli EXCEPT ![probe + 1] = m.fill]
             /\ IF m.accepted
                THEN /\ sub_resp_Color' = m.color
                     /\ judgement_Error' = EuclideanDistance(m.color, probe_Color)
                     /\ resp_time' \in RespTimes
                     /\ pc' = "write"
                ELSE UNCHANGED <<sub_resp_Color, judgement_Error, resp_time, pc>>
    /\ UNCHANGED <<script, status, file_vars, setup_vars, rng, palette_vars,
                   gen_vars, current_trial, keys, probe, probe_Color, waited,
                   response, previous_run>>

\* the row of the trial is written and flushed.  The values the trial leaves
\* in the per-trial variables are not read again before the next trial sets
\* them, and are put back to their defaults here.
WriteRow ==
    /\ status = "running" /\ pc = "write"
    /\ LET row == OutputRow(script, subj_num, current_trial, trial, response,
                            resp_time, probe_Color, sub_resp_Color, judgement_Error)
           f   == Flush(fs, subj_file, WriteRowTo(csv_buffer, row))
       IN  /\ fs' = f.fs
           /\ csv_buffer' = f.buffer
    /\ pc' = "loop"
    /\ mousePos' = <<0, 0>>
    /\ buttons' = FALSE
    /\ probe' = -1
    /\ probe_Color' = <<>>
    /\ stimuli' = <<>>
    /\ probe_fill' = <<>>
    /\ waited' = 0
    /\ response' = FALSE
    /\ resp_time' = 0
    /\ sub_resp_Color' = <<>>
    /\ judgement_Error' = 0
    /\ UNCHANGED <<script, status, setup_vars, rng, palette_vars, gen_vars,
                   current_trial, keys, previous_run>>

\* the process dies during the experiment loop: what csv_file has buffered is
\* lost, what was flushed stays
Crash ==
    /\ status = "running" /\ pc \in LoopPcs
    /\ status' = "crashed"
    /\ csv_buffer' = <<>>
    /\ keys' = <<>>
    /\ UNCHANGED <<script, pc, fs, setup_vars, rng, palette_vars, gen_vars,
                   current_trial, mousePos, buttons, trial_vars,
                   previous_run>>

NextGen == DialogCancel \/ DialogOK \/ SeedGenerator \/ WriteHeader
              \/ BuildTrial \/ GenerationRaises \/ ShuffleTrials \/ ReturnTrials

NextRun == Instructions \/ KeyPress \/ BeginTrial \/ ShowSample \/ ShowDelay
              \/ ShowProbe \/ PollKeys \/ PollMouse \/ WriteRow \/ Crash

Next == NextGen \/ NextRun

Spec == Init /\ [][Next]_vars

SpecGen == Init /\ [][NextGen]_vars

\* the script is started again after set_trials of an earlier run returned:
\* a new interpreter, the files as they are or with the earlier run's result
\* file moved away
Relaunch ==
    /\ status = "running" /\ pc = "instructions"
    /\ previous_run = <<>>
    /\ previous_run' = <<[seed |-> ToInt(subj_num), NUM_REPS |-> NUM_REPS,
                          test_set |-> test_set]>>
    /\ \E moved \in BOOLEAN :
         fs' = IF moved THEN [q \in DOMAIN fs \ {subj_file} |-> fs[q]] ELSE fs
    /\ rng' \in Entropy
    /\ pc' = "setup_subject"
    /\ csv_buffer' = <<>>
    /\ subj_info' = <<>>
    /\ dialog' = None
    /\ NUM_REPS' = INIT_NUM_REPS
    /\ subj_num' = <<>>
    /\ subj_file' = <<>>
    /\ TRIAL_colorS1' = InitColorS1
    /\ TRIAL_colorS2' = InitColorS2
    /\ TRIAL_colorS' = InitColorS
    /\ rep' = 0
    /\ trial_type' = 0
    /\ shuffle_i' = -1
    /\ rand_1' = -1
    /\ rand_2' = -1
    /\ test_set' = <<>>
    /\ UNCHANGED <<script, status, set_trial, current_trial, input_vars, trial_vars>>

NextReplay == NextGen \/ Relaunch

SpecReplay == Init /\ [][NextReplay]_vars

\* ------------------------------------------------------------------------
\* class Trial used on its own: the body of the loops of set_trials, one call
\* at a time, for any condition index and repetition index, with the attribute
\* num_stimuli open to the caller between the calls
\* ------------------------------------------------------------------------
TrialPcCalls == {"Trial", "set_positions", "set_colors", "append", "appended"}

InitTrial ==
    /\ script \in Scripts
    /\ status = "running"
    /\ pc = "Trial"
    /\ fs = [q \in {} |-> OldFile]
    /\ csv_buffer = <<>>
    /\ subj_info = <<>>
    /\ dialog = None
    /\ NUM_REPS = INIT_NUM_REPS
    /\ subj_num = <<>>
    /\ subj_file = <<>>
    /\ rng \in 0..MaxSeed
    /\ TRIAL_colorS1 = InitColorS1
    /\ TRIAL_colorS2 = InitColorS2
    /\ TRIAL_colorS = InitColorS
    /\ rep \in 0..MaxRepNum
    /\ trial_type \in -1..MaxTrialNum
    /\ shuffle_i = -1
    /\ rand_1 = -1
    /\ rand_2 = -1
    /\ set_trial = <<>>
    /\ test_set = <<>>
    /\ current_trial = 0
    /\ keys = <<>>
    /\ mousePos = <<0, 0>>
    /\ buttons = FALSE
    /\ probe = -1
    /\ probe_Color = <<>>
    /\ stimuli = <<>>
    /\ probe_fill = <<>>
    /\ waited = 0
    /\ response = FALSE
    /\ resp_time = 0
    /\ sub_resp_Color = <<>>
    /\ judgement_Error = 0
    /\ previous_run = <<>>

\* set_trial = Trial(trial, rep)
CallTrial ==
    /\ status = "running" /\ pc = "Trial"
    /\ set_trial' = <<NewTrial(script, trial_type, rep)>>
    /\ pc' = "set_positions"
    /\ UNCHANGED <<script, status, file_vars, setup_vars, rng, palette_vars, rep,
                   trial_type, shuffle_i, rand_1, rand_2, test_set, current_trial,
                   input_vars, trial_vars, previous_run>>

\* set_trial.num_stimuli = n, by the caller
AssignNumStimuli ==
    /\ status = "running" /\ pc = "set_positions"
    /\ set_trial[1].num_stimuli = NumStimuli(script, trial_type)
    /\ \E n \in 0..MaxStimuli :
         /\ n # set_trial[1].num_stimuli
         /\ set_trial' = <<[set_trial[1] EXCEPT !.num_stimuli = n]>>
    /\ UNCHANGED <<script, status, pc, file_vars, setup_vars, rng, palette_vars,
                   rep, trial_type, shuffle_i, rand_1, rand_2, test_set,
                   current_trial, input_vars, trial_vars, previous_run>>

\* set_trial.set_positions()
CallSetPositions ==
    /\ status = "running" /\ pc = "set_positions"
    /\ LET a == SetPositions(set_trial[1], rng)
       IN  /\ set_trial' = <<a.trial>>
           /\ rng' = a.rng
    /\ pc' = "set_colors"
    /\ UNCHANGED <<script, status, file_vars, setup_vars, palette_vars, rep,
                   trial_type, shuffle_i, rand_1, rand_2, test_set, current_trial,
                   input_vars, trial_vars, previous_run>>

\* set_trial.set_colors(); an exception it raises ends the caller
CallSetColors ==
    /\ pc = "set_colors" /\ status = "running"
    /\ LET m == SetColors(script, set_trial[1], rng,
                          TRIAL_colorS1, TRIAL_colorS2, TRIAL_colorS)
       IN  /\ set_trial' = <<m.trial>>
           /\ rng' = m.rng
           /\ TRIAL_colorS1' = m.S1
           /\ TRIAL_colorS2' = m.S2
           /\ TRIAL_colorS' = m.S
           /\ rand_1' = m.rand_1
           /\ rand_2' = m.rand_2
           /\ IF m.err
              THEN status' = "error" /\ pc' = pc
              ELSE status' = status /\ pc' = "append"
    /\ UNCHANGED <<script, file_vars, setup_vars, rep, trial_type, shuffle_i,
                   test_set, current_trial, input_vars, trial_vars, previous_run>>

\* test_set.append(set_trial)
CallAppend ==
    /\ status = "running" /\ pc = "append"
    /\ test_set' = Append(test_set, set_trial[1])
    /\ pc' = "appended"
    /\ UNCHANGED <<script, status, file_vars, setup_vars, rng, palette_vars, rep,
                   trial_type, shuffle_i, rand_1, rand_2, set_trial, current_trial,
                   input_vars, trial_vars, previous_run>>

NextTrial == CallTrial \/ AssignNumStimuli \/ CallSetPositions \/ CallSetColors
                \/ CallAppend

SpecTrial == InitTrial /\ [][NextTrial]_vars

\* ------------------------------------------------------------------------
\* Error handling of class Trial
\* ------------------------------------------------------------------------
\* the condition indices of the lookup table of Trial.__init__
ConditionIndices(s) == 0..(NUM_TYPE(s) - 1)

\* the number of colours set_colors fills the colour lists from
PoolSize(s) == IF s = "discrete" THEN Len(InitColorS1 \o InitColorS2)
               ELSE Len(InitColorS)

\* the Trial under construction has come through set_colors without an error
Populated == set_trial # <<>> /\ pc \in {"append", "appended"}

\* C11: a Trial constructed with a condition index outside the lookup table is
\* never populated without an error and never appended to the trial list,
\* whatever its repetition index.
C11_InvalidIndexFails ==
    (set_trial # <<>> /\ set_trial[1].trial_num \notin ConditionIndices(script)
        /\ set_trial[1].num_stimuli = NumStimuli(script, set_trial[1].trial_num))
    => (~Populated /\ test_set = <<>>)

\* C12: a Trial whose num_stimuli exceeds the size of the colour pool never
\* comes out of set_colors, with or without change; no colour list is cut to
\* fewer than num_stimuli entries.
C12_PaletteTooSmallFails ==
    (set_trial # <<>> /\ set_trial[1].num_stimuli > PoolSize(script))
    => ~Populated

\* ------------------------------------------------------------------------
\* Properties of the generated trials
\* ------------------------------------------------------------------------
\* the stimulus counts of the script's conditions
Loads(s) == IF s = "discrete" THEN {1, 2, 3, 4, 8, 12} ELSE {2, 4, 6}

\* the Trial that the last pass of set_trials appended
LastBuilt == test_set[Len(test_set)]

\* a Trial was appended and the list has not been shuffled since
JustBuilt ==
    /\ pc = "set_trials" /\ status = "running"
    /\ Len(test_set) > 0 /\ shuffle_i = Len(test_set) - 1

\* set_trials has returned its list
Returned == pc = "instructions"

\* the Trials set_trials has produced: the one just appended while the list is
\* being built, and all of them when the list is returned
Produced ==
    IF JustBuilt THEN {LastBuilt}
    ELSE IF Returned THEN Range(test_set)
    ELSE {}

\* the indices at which the probe array differs from the sample array
Changed(t) ==
    {i \in 1..Min(Len(t.stim_colors), Len(t.probe_colors)) :
        t.probe_colors[i] # t.stim_colors[i]}

\* C1: every produced Trial has num_stimuli positions, sample colours and probe
\* colours, num_stimuli being a load of the script, and its positions are
\* pairwise distinct slots of the 12-slot ring.
C1_Lengths ==
    \A t \in Produced :
        /\ t.num_stimuli \in Loads(script)
        /\ Len(t.stim_positions) = t.num_stimuli
        /\ Len(t.stim_colors) = t.num_stimuli
        /\ Len(t.probe_colors) = t.num_stimuli
        /\ Distinct(t.stim_positions)
        /\ Range(t.stim_positions) \subseteq 0..11

C1_Witness ==
    /\ Returned /\ script = "discrete"
    /\ \E t \in Range(test_set) : t.num_stimuli = 12 /\ Len(t.stim_positions) = 12
    /\ \E t \in Range(test_set) : t.num_stimuli = 1

\* C2: the sample colours of every produced Trial are pairwise distinct, the
\* 12-item condition of the discrete script included, and building a Trial
\* never fails.
C2_DistinctColors ==
    /\ status # "error"
    /\ \A t \in Produced : Distinct(t.stim_colors)

\* C3: in every produced change Trial exactly one probe colour differs from the
\* sample colour at its index.
C3_ExactlyOneChange ==
    \A t \in Produced : t.change => Cardinality(Changed(t)) = 1

\* C4: on a change trial the colour written at probe_colors[rand_1] is a
\* colour that is absent from the trial's sample colours.
C4_ReplacementAbsent ==
    (JustBuilt /\ LastBuilt.change) =>
        LastBuilt.probe_colors[rand_1 + 1] \notin Range(LastBuilt.stim_colors)

\* C5: change is true exactly for even rep_num, and a Trial without change has
\* probe colours equal to its sample colours.
C5_ChangeIffEven ==
    \A t \in Produced :
        /\ t.change <=> (t.rep_num % 2 = 0)
        /\ ~t.change => t.probe_colors = t.stim_colors

C5_Witness ==
    /\ Returned
    /\ \E t \in Range(test_set) : t.change /\ t.rep_num = 0
    /\ \E t \in Range(test_set) : ~t.change /\ t.rep_num = 1 /\ t.num_stimuli > 1


\* ------------------------------------------------------------------------
\* Reproducibility and size of the trial list
\* ------------------------------------------------------------------------
\* the earlier run seeded the generator with the same subject number and had
\* the same NUM_REPS
SameSession ==
    /\ previous_run # <<>>
    /\ IsDigit(subj_num)
    /\ previous_run[1].seed = ToInt(subj_num)
    /\ previous_run[1].NUM_REPS = NUM_REPS

\* C6: two runs of a script that seed the generator with the same subject
\* number and have the same NUM_REPS get the same list from set_trials.
C6_SameSeedSameTrials ==
    (Returned /\ SameSession) => test_set = previous_run[1].test_set

C6_Witness ==
    /\ Returned /\ SameSession
    /\ NUM_REPS = INIT_NUM_REPS
    /\ Len(test_set) = INIT_NUM_REPS * NUM_TYPE(script)
    /\ test_set = previous_run[1].test_set

\* the positions of the list that hold the Trial of repetition r, condition c
PairAt(list, r, c) ==
    {i \in 1..Len(list) : list[i].rep_num = r /\ list[i].trial_num = c}

\* C7: set_trials returns NUM_REPS * NUM_TYPE trials, one for each pair of
\* repetition and condition, its final shuffle only permuting the list built;
\* NUM_REPS is 2 for subject number 999 (12 trials in the discrete script) and
\* 50 otherwise.
C7_TrialCount ==
    [][/\ AllBuilt =>
            /\ Len(test_set') = Len(test_set)
            /\ Range(test_set') = Range(test_set)
       /\ (pc = "set_trials" /\ pc' = "instructions") =>
            /\ Len(test_set') = NUM_REPS * NUM_TYPE(script)
            /\ \A r \in 0..(NUM_REPS - 1), c \in 0..(NUM_TYPE(script) - 1) :
                   Cardinality(PairAt(test_set', r, c)) = 1
            /\ NUM_REPS = IF ToInt(subj_num) = 999 THEN 2 ELSE 50
            /\ (ToInt(subj_num) = 999 /\ script = "discrete") =>
                   Len(test_set') = 12
      ]_vars

\* the discrete script has returned the 12 trials of subject 999, and not in
\* the order they were built in
C7_Witness ==
    /\ Returned /\ script = "discrete" /\ ToInt(subj_num) = 999
    /\ Len(test_set) = 12
    /\ \E i \in 1..Len(test_set) :
           test_set[i].rep_num * NUM_TYPE(script) + test_set[i].trial_num # i - 1

\* ------------------------------------------------------------------------
\* The response loop of the continuous script
\* ------------------------------------------------------------------------
\* C8: the response loop of the continuous script ends only on a press made
\* with the pointer inside the annulus between mask1 and mask2.
C8_NoResponseOutsideAnnulus ==
    (script = "continuous" /\ pc = "write") => InAnnulus(mousePos)

\* ------------------------------------------------------------------------
\* The output file
\* ------------------------------------------------------------------------
\* the number of trials whose row has been written
RowsDone == IF pc \in TrialPcs THEN current_trial - 1 ELSE current_trial

\* C9: throughout the experiment loop, also after a quit or a crash, the
\* output file is the header row followed by one row for each trial completed,
\* in the order of presentation and numbered 1, 2, ..., and nothing written is
\* left unflushed.
C9_FileRows ==
    pc \in LoopPcs =>
        /\ csv_buffer = <<>>
        /\ subj_file \in DOMAIN fs
        /\ Len(fs[subj_file]) = 1 + RowsDone
        /\ fs[subj_file][1] = HEADER_LIST(script)
        /\ \A k \in 1..RowsDone :
               /\ fs[subj_file][k + 1][1] = subj_num
               /\ fs[subj_file][k + 1][2] = k
               /\ fs[subj_file][k + 1][3] = test_set[k].num_stimuli

\* the process died during the second trial and the row of the first is there
C9_Witness ==
    /\ status = "crashed" /\ pc = "response" /\ current_trial = 2
    /\ Len(fs[subj_file]) = 2
    /\ fs[subj_file][2][2] = 1

\* ------------------------------------------------------------------------
\* setup_subject
\* ------------------------------------------------------------------------
\* C10 as stated: setup_subject returns only with an identifier of digits for
\* which no output file exists.
C10_ReturnsOnlyUnused ==
    pc = "seed" => (IsDigit(subj_num) /\ subj_file \notin DOMAIN fs)

\* C10, amended: a round of the dialog returns only for an entry of digits
\* that either has the value 999 or has no output file yet; an entry that is
\* not of digits, and an entry other than 999 whose file exists, show their
\* error and ask again; a cancelled dialog quits without returning.
C10_SetupSubject ==
    [][(pc = "setup_subject" /\ status = "running") =>
         /\ pc' = "seed" =>
               /\ IsDigit(subj_info') /\ subj_num' = subj_info'
               /\ subj_file' = FilePath(subj_info')
               /\ (ToInt(subj_info') = 999 \/ FilePath(subj_info') \notin DOMAIN fs)
         /\ dialog' = "cancel" => (status' = "quit" /\ pc' = "setup_subject")
         /\ (dialog' # "cancel" /\ ~IsDigit(subj_info')) =>
               (dialog' = "num_error" /\ pc' = "setup_subject" /\ status' = "running")
         /\ (dialog' # "cancel" /\ IsDigit(subj_info') /\ ToInt(subj_info') # 999
                /\ FilePath(subj_info') \in DOMAIN fs) =>
               (dialog' = "subj_error" /\ pc' = "setup_subject" /\ status' = "running")
      ]_vars

\* setup_subject has returned subject 999 although its output file exists
C10_Witness ==
    /\ pc = "seed" /\ ToInt(subj_num) = 999
    /\ subj_file \in DOMAIN fs

\* ------------------------------------------------------------------------
\* Trial generation and the experiment loop
\* ------------------------------------------------------------------------
\* the script is past set_trials: at the instructions or in the experiment loop
Presenting == pc \in {"instructions"} \cup LoopPcs

\* the interpreter has exited on an exception of trial generation
Raised == status \in {"raised", "error"}

\* C13: set_trials is entered once, after the header was written, and is left
\* once, with all NUM_REPS * NUM_TYPE trials built, before the instructions
\* and the experiment loop; from then on no Trial is built and the list is not
\* touched; and when trial generation raises, the script is in set_trials,
\* the output file holds the header row alone and nothing happens afterwards.
C13_GenerationBeforeLoop ==
    [][/\ Presenting =>
            /\ Presenting'
            /\ test_set' = test_set
            /\ <<rep', trial_type', shuffle_i'>> = <<rep, trial_type, shuffle_i>>
       /\ (pc # "set_trials" /\ pc' = "set_trials") =>
            (pc = "header" /\ test_set' = <<>>)
       /\ (pc = "set_trials" /\ pc' # "set_trials") =>
            /\ pc' = "instructions"
            /\ rep = NUM_REPS
            /\ Len(test_set') = NUM_REPS * NUM_TYPE(script)
       /\ Raised' =>
            /\ pc' = "set_trials"
            /\ fs'[subj_file'] = <<HEADER_LIST(script)>>
       /\ ~Raised
      ]_vars

\* the continuous script is in the loop with its second trial, all 150 trials
\* having been built before
C13_Witness ==
    /\ script = "continuous" /\ pc = "response" /\ current_trial = 2
    /\ Len(test_set) = INIT_NUM_REPS * NUM_TYPE(script)
    /\ rep = NUM_REPS

\* ------------------------------------------------------------------------
\* The colour-name columns of a row
\* ------------------------------------------------------------------------
\* the number of colour-name columns per colour list
NameSlots(s) == IF s = "discrete" THEN 12 ELSE 6

\* what column j of the name columns of a colour list has to hold: the name of
\* colour j where the script has a name for it, and the sentinel otherwise
ExpectedName(s, colors, j) ==
    IF s = "discrete" /\ j <= Len(colors) /\ colors[j] \in DOMAIN color_NAMES
    THEN color_NAMES[colors[j]]
    ELSE "NaN"

\* the rows after the header in the output file
TrialRows == 2..Len(fs[subj_file])

\* C14: every trial row in the output file has as many fields as HEADER_LIST
\* (30 in the discrete script, 13 in the continuous script), whatever the
\* stimulus count; a colour column whose name lookup fails (no such item, or no
\* name for the colour) holds 'NaN', and the others hold the colour's name.
C14_RowFields ==
    pc \in LoopPcs =>
        \A k \in TrialRows :
            LET row == fs[subj_file][k]
                t   == test_set[k - 1]
            IN  /\ Len(row) = Len(HEADER_LIST(script))
                /\ Len(row) = IF script = "discrete" THEN 30 ELSE 13
                /\ \A j \in 1..NameSlots(script) :
                       row[3 + j] = ExpectedName(script, t.stim_colors, j)
                /\ script = "discrete" =>
                       \A j \in 1..NameSlots(script) :
                           row[15 + j] = ExpectedName(script, t.probe_colors, j)

\* the discrete script has written the row of a trial of fewer than 12 items:
\* names in its first columns and the sentinel in the last
C14_Witness ==
    /\ script = "discrete" /\ pc = "loop"
    /\ \E k \in TrialRows :
           /\ fs[subj_file][k][4] # "NaN"
           /\ fs[subj_file][k][15] = "NaN"
           /\ fs[subj_file][k][16] # "NaN"
           /\ fs[subj_file][k][27] = "NaN"

\* ------------------------------------------------------------------------
\* The escape key
\* ------------------------------------------------------------------------
\* a trial of the running script has begun and an escape press waits in the
\* event buffer
EscapePending ==
    /\ status = "running"
    /\ pc \in TrialPcs \/ (pc = "loop" /\ current_trial > 0)
    /\ "escape" \in Range(keys)

\* C15: in the continuous script an escape press made while a trial is in
\* progress is never lost: it stays in the event buffer until the script quits
\* on it, which it does before the next trial is presented, whatever other
\* keys were pressed before it.
C15_EscapeAborts ==
    [][(script = "continuous" /\ EscapePending) =>
          /\ "escape" \in Range(keys') \/ status' # "running"
          /\ pc' = "iti" => pc = "iti"
      ]_vars

\* the response loop of the discrete script is polling, an escape press waits
\* in the event buffer and neither z nor m does
EscapeAlone ==
    /\ script = "discrete" /\ status = "running" /\ pc = "response"
    /\ "escape" \in Range(keys)
    /\ "z" \notin Range(keys) /\ "m" \notin Range(keys)

\* C16: with escape waiting and neither z nor m, the next thing the discrete
\* script does in its response loop is to quit: no response and no response
\* time are recorded and nothing is written, so the file keeps the header and
\* the rows of the trials before the current one.  (Before the script acts
\* another key may go down, or the process may die.)
C16_EscapeQuits ==
    [][EscapeAlone =>
          \/ /\ status' = "quit"
             /\ pc' = "response"
             /\ <<response', resp_time'>> = <<response, resp_time>>
             /\ <<fs', csv_buffer'>> = <<fs, <<>> >>
             /\ Len(fs'[subj_file]) = current_trial
             /\ \A k \in 1..(current_trial - 1) : fs'[subj_file][k + 1][2] = k
          \/ /\ \E k \in KeyNames : keys' = Append(keys, k)
             /\ <<status', pc'>> = <<status, pc>>
          \/ status' = "crashed"
      ]_vars

\* the discrete script has quit on escape in the response loop of its second
\* trial, the row of the first being in the file
C16_Witness ==
    /\ script = "discrete" /\ status = "quit" /\ pc = "response"
    /\ current_trial = 2
    /\ Len(fs[subj_file]) = 2
    /\ fs[subj_file][2][2] = 1

\* ------------------------------------------------------------------------
\* The colour wheel and the recorded error
\* ------------------------------------------------------------------------
\* the sum of the squares of the component differences of two RGB triples
SquaredDifference(a, b) ==
    (a[1] - b[1]) * (a[1] - b[1]) + (a[2] - b[2]) * (a[2] - b[2])
        + (a[3] - b[3]) * (a[3] - b[3])

\* a mouse press has ended the response loop of the continuous script
Responded == script = "continuous" /\ pc = "write"

\* C17: on the press that ends the response loop the recorded error is the
\* Euclidean distance in RGB space (here rounded down to a whole fixed-point
\* unit) between the wheel colour rgb[loc] and the colour of the probed item,
\* stim_colors[probe]; it is 0 when the two are the same triple, as for a
\* pointer on wheel point 90 and a probe of wheel colour 90.
C17_EuclideanError ==
    /\ EuclideanDistance(rgb(NearestWheelPoint(xys(90))), rgb(90)) = 0
    /\ Responded =>
          /\ probe \in 0..(trial.num_stimuli - 1)
          /\ probe_Color = trial.stim_colors[probe + 1]
          /\ sub_resp_Color = rgb(NearestWheelPoint(mousePos))
          /\ judgement_Error >= 0
          /\ judgement_Error * judgement_Error
                 <= SquaredDifference(sub_resp_Color, probe_Color)
          /\ SquaredDifference(sub_resp_Color, probe_Color)
                 < (judgement_Error + 1) * (judgement_Error + 1)
          /\ sub_resp_Color = probe_Color => judgement_Error = 0

\* the press was made nearest to the wheel point of the probed item's colour
C17_Witness ==
    /\ Responded
    /\ sub_resp_Color = probe_Color
    /\ judgement_Error = 0

\* the wheel points: 360 points that start at (8, 0) and go round the circle
\* of radius 8 counter-clockwise in steps of one degree (a chord of 0.1396),
\* a quarter turn every 90 points, to the rounding of the coordinates; and the
\* wheel colours at the six hues that are palette colours
WheelGeometry ==
    /\ n_circ = 360
    /\ xys(0) = <<loop_radius * 100, 0>>
    /\ \A k \in 0..(n_circ - 1) :
          /\ Abs(Dist2(xys(k), <<0, 0>>) - (loop_radius * 100) * (loop_radius * 100))
                 <= 2 * (loop_radius * 100) * 6
          /\ xys(k)[1] * xys(k + 1)[2] - xys(k)[2] * xys(k + 1)[1] > 0
          /\ Dist2(xys(k), xys(k + 1)) > 130 * 130
          /\ Dist2(xys(k), xys(k + 1)) < 150 * 150
          /\ xys(k + 90) = <<-xys(k)[2], xys(k)[1]>>
    /\ <<rgb(0), rgb(60), rgb(120), rgb(180), rgb(240), rgb(300)>>
          = <<Red, Yellow, Green, Cyan, Blue, Purple>>

\* wheel point k is at least distance from p, and the first such point
IsNearest(k, p) ==
    \A j \in 0..(n_circ - 1) :
        /\ Dist2(xys(k), p) <= Dist2(xys(j), p)
        /\ j < k => Dist2(xys(k), p) < Dist2(xys(j), p)

\* for each pointer position the first of the wheel points nearest to it
FirstNearest == [p \in MousePoints |-> CHOOSE k \in 0..(n_circ - 1) : IsNearest(k, p)]

\* C20: the wheel has 360 points, point k at angle k degrees on the circle of
\* radius 8; the colour the response loop displays and the colour it reports
\* are the wheel colour of hue k degrees for the point k that is nearest to
\* the pointer, the lowest such k when several are equally near.
C20_NearestWheelPoint ==
    /\ WheelGeometry
    /\ Responded => sub_resp_Color = rgb(FirstNearest[mousePos])
    /\ (script = "continuous" /\ pc \in {"response", "write"}
           /\ probe_fill # <<>>) => probe_fill = rgb(FirstNearest[mousePos])

\* a press with the pointer at the centre, from which several wheel points
\* are equally far, and the first of them reported
C20_Witness ==
    /\ Responded
    /\ mousePos = <<0, 0>>
    /\ Cardinality({k \in 0..(n_circ - 1) :
                       Dist2(xys(k), mousePos) = Dist2(xys(17), mousePos)}) > 1
    /\ sub_resp_Color = rgb(17)

\* ------------------------------------------------------------------------
\* The order and the timing of a trial
\* ------------------------------------------------------------------------
\* the statement that follows each statement of the experiment loop
NextPhase(p) ==
    CASE p = "loop"     -> "iti"
      [] p = "iti"      -> "sample"
      [] p = "sample"   -> "delay"
      [] p = "delay"    -> "response"
      [] p = "response" -> "write"
      [] p = "write"    -> "loop"

\* C18: in the experiment loop the script goes through the phases of a trial
\* in one order only: fixation, which lasts at least ITI_TIME before the
\* sample is shown; sample, at least STIM_TIME; delay, at least DELAY_TIME;
\* probe and response; row write.  The sample of a trial is shown only when
\* the rows of all trials before it are in the file, a row is written only
\* after a response (z or m, or a mouse press) was taken, and exactly one row
\* is written per trial.
C18_PhaseOrder ==
    [][/\ (pc \in LoopPcs /\ pc' # pc) => pc' = NextPhase(pc)
       /\ current_trial' # current_trial =>
             /\ pc' = "iti" \/ pc = "instructions"
             /\ current_trial' = IF pc = "instructions" THEN 0 ELSE current_trial + 1
       /\ (pc = "iti" /\ pc' = "sample") =>
             /\ waited' >= ITI_TIME
             /\ Len(fs[subj_file]) = current_trial
       /\ (pc = "sample" /\ pc' = "delay") => waited' >= STIM_TIME
       /\ (pc = "delay" /\ pc' = "response") => waited' >= DELAY_TIME(script)
       /\ (pc = "response" /\ pc' = "write") =>
             IF script = "discrete"
             THEN /\ "z" \in Range(keys) \/ "m" \in Range(keys)
                  /\ response' = ("z" \in Range(keys))
             ELSE buttons'
       /\ (pc \in LoopPcs /\ fs' # fs) =>
             /\ pc = "write" /\ pc' = "loop"
             /\ Len(fs'[subj_file]) = Len(fs[subj_file]) + 1
             /\ Len(fs'[subj_file]) = current_trial + 1
      ]_vars

\* the sample of the second trial is on the screen, after a fixation of at
\* least ITI_TIME and with the row of the first trial in the file
C18_Witness ==
    /\ pc = "sample" /\ current_trial = 2
    /\ waited >= ITI_TIME
    /\ Len(fs[subj_file]) = 2

\* ------------------------------------------------------------------------
\* Trials are read-only once built
\* ------------------------------------------------------------------------
\* the positions at which the trial list differs before and after a step
Moved == {i \in 1..Min(Len(test_set), Len(test_set')) : test_set'[i] # test_set[i]}

\* C19: a Trial that is in the trial list stays as it was built.  While the
\* list is built, a step leaves every Trial already in it in place and
\* unchanged (the palettes are shuffled, the Trials built from them are not);
\* a step of the final shuffle exchanges two Trials of the list or leaves it;
\* from the instructions on the list is not touched at all.  The loop takes
\* the Trials of the list one by one in list order, each once.
C19_TrialsReadOnly ==
    [][/\ (pc = "set_trials" /\ ~AllBuilt) =>
             /\ Len(test_set') >= Len(test_set)
             /\ Moved = {}
       /\ AllBuilt =>
             /\ Len(test_set') = Len(test_set)
             /\ Cardinality(Moved) \in {0, 2}
             /\ \A i, j \in Moved : i # j => test_set'[i] = test_set[j]
       /\ Presenting =>
             /\ test_set' = test_set
             /\ pc \in TrialPcs => current_trial' = current_trial
             /\ (pc = "loop" /\ pc' = "iti") =>
                   /\ current_trial' = current_trial + 1
                   /\ current_trial' \in 1..Len(test_set)
      ]_vars

\* the loop is at the second Trial of a list of 300 that the final shuffle
\* has reordered
C19_Witness ==
    /\ script = "discrete" /\ pc = "write" /\ current_trial = 2
    /\ Len(test_set) = INIT_NUM_REPS * NUM_TYPE(script)
    /\ \E i \in 1..Len(test_set) :
           test_set[i].rep_num * NUM_TYPE(script) + test_set[i].trial_num # i - 1


\* ------------------------------------------------------------------------
\* The probed colour of the continuous script
\* ------------------------------------------------------------------------
\* the column Probe_Color of the row the step writes
ProbeColumn(row) == row[10]

\* the step appends a row to the output file
RowWritten ==
    /\ pc = "write" /\ pc' = "loop"
    /\ Len(fs'[subj_file]) = Len(fs[subj_file]) + 1

\* C21: in the continuous script the probed colour of a trial, which the error
\* is computed from and which is written to the row, is the colour the probed
\* item was filled with on the sample screen: it is that fill when the sample
\* goes off the screen and the probe is drawn, it stays as it is until the
\* row is written, and the row holds it.
C21_ProbeColorDisplayed ==
    [][script = "continuous" =>
          /\ (pc = "sample" /\ pc' = "delay") =>
                 probe_Color' = stimuli[probe' + 1]
          /\ (pc \in {"delay", "response"} /\ pc' \in TrialPcs) =>
                 probe_Color' = probe_Color
          /\ RowWritten =>
                 ProbeColumn(fs'[subj_file][Len(fs'[subj_file])]) = probe_Color
      ]_vars


\* ------------------------------------------------------------------------
\* The names in the sample-colour columns
\* ------------------------------------------------------------------------
\* the name the scripts give a colour where they write a palette down
DisplayName(c) ==
    CASE c = Black -> "Black" [] c = Blue -> "Blue" [] c = Green -> "Green"
      [] c = Cyan -> "Cyan" [] c = Red -> "Red" [] c = Purple -> "Purple"
      [] c = Yellow -> "Yellow" [] c = White -> "White" [] c = Orange -> "Orange"
      [] OTHER -> "NaN"

\* C22: in both scripts every row holds, in each sample-colour column below
\* the stimulus count of its trial, the name of the sample colour at that
\* index, and the sentinel 'NaN' in no such column.
C22_SampleColumnsNamed ==
    pc \in LoopPcs =>
        \A k \in TrialRows :
            LET row == fs[subj_file][k]
                t   == test_set[k - 1]
            IN  \A j \in 1..Min(t.num_stimuli, NameSlots(script)) :
                    /\ row[3 + j] # "NaN"
                    /\ j <= Len(t.stim_colors) =>
                           row[3 + j] = DisplayName(t.stim_colors[j])


\* ------------------------------------------------------------------------
\* Key presses before the probe display
\* ------------------------------------------------------------------------
\* a response key waits in the event buffer
ResponseKeyPending(buf) == "z" \in Range(buf) \/ "m" \in Range(buf)

\* the step is the flip that puts the probe array of the discrete script on
\* the screen
ProbeOnset == script = "discrete" /\ pc = "delay" /\ pc' = "response"

\* C23: in the discrete script a z or m pressed before the probe array is on
\* the screen is never taken as the response of the trial: when the probe
\* array appears no z or m waits in the event buffer, so that the key the
\* response loop ends with was pressed after the probe display.
C23_NoEarlyResponse ==
    [][ProbeOnset => ~ResponseKeyPending(keys')]_vars


\* ------------------------------------------------------------------------
\* The response keys of the discrete script
\* ------------------------------------------------------------------------
\* the discrete script is in its response loop
InResponseLoop == script = "discrete" /\ status = "running" /\ pc = "response"

\* the column Subject_Response of a row of the discrete script
ResponseColumn(row) == row[29]

\* C24: in the discrete script the response loop ends only when z, m or
\* escape waits in the event buffer.  It ends with z whenever z is pending,
\* also when m is pending as well, and then the response is True; it ends
\* with m when m is pending and z is not, and then the response is False;
\* it ends with escape only when neither is pending, and then the program
\* quits and no row is written.  A row is written only after a loop that z
\* or m ended, and its Subject_Response is that response.
C24_ResponseKeys ==
    [][script = "discrete" =>
          /\ (InResponseLoop /\ (pc' # pc \/ status' = "quit")) =>
                 \E k \in {"z", "m", "escape"} : k \in Range(keys)
          /\ (InResponseLoop /\ pc' = "write") =>
                 /\ ResponseKeyPending(keys)
                 /\ response' = ("z" \in Range(keys))
                 /\ keys' = Without(keys, IF response' THEN "z" ELSE "m")
          /\ (InResponseLoop /\ status' = "quit") =>
                 /\ ~ResponseKeyPending(keys)
                 /\ pc' = pc
                 /\ fs' = fs
          /\ (pc \in LoopPcs /\ fs' # fs) =>
                 /\ RowWritten
                 /\ ResponseColumn(fs'[subj_file][Len(fs'[subj_file])]) = response
          /\ (pc # "write" /\ pc' = "write") => InResponseLoop
      ]_vars

\* the response loop of the discrete script has ended with z while m was
\* pending as well: the response is True and m is still in the buffer
C24_Witness ==
    /\ script = "discrete" /\ status = "running" /\ pc = "write"
    /\ response = TRUE
    /\ "m" \in Range(keys)

====
